---- MODULE Spec2Model ----
(***************************************************************************)
(* Model of the SKU dashboard repository:                                  *)
(*   src/process_listing_data.py  the normalisation pipeline (decoder,     *)
(*                                flatteners, reconcile, build)            *)
(*   src/dashboard.py             the filter/window engine and the KPIs    *)
(* Dates are integers.  A missing number (None / NaN) is NaN, a missing    *)
(* date is NaT.  An exception leaving a function is a value of its own.    *)
(***************************************************************************)
EXTENDS Integers, Sequences, FiniteSets, TLC

VARIABLES
    payload, result, dstage,                         \* safe_parse_json on one value
    df, revenue_df, promotion_df, joined_df,         \* main() of the pipeline
    merged_df, final_df, stage,
    raw, pc, date_start, date_end, item_df,          \* one run of the dashboard script
    LATEST_DATE, nearest_4w, active_brands, active_skus,
    filt, latest, prev, kpi,
    rating_thresh, count_thresh, growth_thresh,      \* the three sliders
    trend_items                                      \* the SKUs of the trend tab

decVars == <<payload, result, dstage>>
pipeVars == <<df, revenue_df, promotion_df, joined_df, merged_df, final_df, stage>>
dashVars == <<raw, pc, date_start, date_end, item_df, LATEST_DATE, nearest_4w,
              active_brands, active_skus, filt, latest, prev, kpi,
              rating_thresh, count_thresh, growth_thresh, trend_items>>
vars == <<decVars, pipeVars, dashVars>>

\* ------------------------------------------------------------------ bounds
MaxLen == 2          \* longest JSON array / Python list
MaxDate == 2         \* pipeline dates are 1..MaxDate
MaxRecords == 2      \* rows of the raw listing table
MaxItem == 2         \* item identifiers are 1..MaxItem
MaxPrice == 2        \* price samples are 1..MaxPrice

NaN == -1            \* None / NaN: an absent number
NaT == 0             \* pandas NaT: an absent or unparsable date

Items == 1..MaxItem
Dates == 1..MaxDate

SeqsUpTo(S, n) == UNION {[1..k -> S] : k \in 0..n}
NonEmptySeqsUpTo(S, n) == UNION {[1..k -> S] : k \in 1..n}
Range(s) == {s[i] : i \in 1..Len(s)}

\* ------------------------------------------------------------ JSON values
\* A decoded JSON document: a number, a mapping (the history entries carry
\* the keys "date" and the value key), or an array of documents.
Num == [k |-> "num"]
Dict(d, v) == [k |-> "dict", date |-> d, val |-> v]
List(s) == [k |-> "list", items |-> s]
\* A cell of the table: NaN, a number, a text (parsing it gives doc, or
\* fails when the text is malformed), or an already structured value.
Nan == [k |-> "nan"]
Malformed == [k |-> "text", ok |-> FALSE, doc |-> Num]
Text(j) == [k |-> "text", ok |-> TRUE, doc |-> j]
None == [k |-> "none"]
Raise(e) == [k |-> "raise", exc |-> e]

\* The longest sequence that starts every sequence of a non-empty set.
common_prefix(S) ==
    LET one == CHOOSE q \in S : TRUE
        agree == {n \in 0..Len(one) :
                     \A q \in S : Len(q) >= n /\ SubSeq(q, 1, n) = SubSeq(one, 1, n)}
    IN SubSeq(one, 1, CHOOSE n \in agree : \A h \in agree : h <= n)

\* The shape of np.asarray(obj, dtype=object), which pd.isna builds for a
\* list: one dimension per level of nesting as long as the lists of the
\* level have one length; below that the elements are objects.
RECURSIVE array_shape(_)
array_shape(x) ==
    IF x.k # "list" THEN <<>>
    ELSE IF Len(x.items) = 0 THEN <<0>>
    ELSE <<Len(x.items)>>
             \o common_prefix({array_shape(x.items[i]) : i \in 1..Len(x.items)})

\* The number of elements of an array of a shape.
array_size(shape) ==
    LET F[i \in 0..Len(shape)] == IF i = 0 THEN 1 ELSE F[i - 1] * shape[i]
    IN F[Len(shape)]

\* The element of an array of one element.
RECURSIVE only_element(_)
only_element(x) == IF x.k = "list" THEN only_element(x.items[1]) ELSE x

\* bool(pd.isna(raw)) as `if pd.isna(raw):` evaluates it.  For a list pd.isna
\* returns an array of the list's shape: its truth value is that of its only
\* element, raises ValueError for two or more elements, and for an empty
\* array is False or raises ValueError, depending on the numpy release.
isna_truth(x) ==
    IF x.k = "nan" \/ x.k = "none" THEN {"true"}
    ELSE IF x.k = "list" THEN
        IF array_size(array_shape(x)) = 0 THEN {"false", "raise"}
        ELSE IF array_size(array_shape(x)) = 1
             THEN (IF only_element(x).k \in {"nan", "none"} THEN {"true"}
                   ELSE {"false"})
             ELSE {"raise"}
    ELSE {"false"}

\* json.loads(raw): the document of a well-formed text, JSONDecodeError for
\* a malformed one, TypeError for a value that is no text.
json_loads(x) ==
    IF x.k = "text" THEN (IF x.ok THEN x.doc ELSE Raise("JSONDecodeError"))
    ELSE Raise("TypeError")

\* safe_parse_json(raw): the set of outcomes (one, except where the numpy
\* release decides).
DecodeAfterIsna(x) ==
    IF x.k \in {"dict", "list"} THEN x
    ELSE LET r == json_loads(x) IN
         IF r.k = "raise" /\ r.exc \in {"JSONDecodeError", "TypeError"}
         THEN None ELSE r

safe_parse_json(x) ==
    {IF t = "true" THEN None
     ELSE IF t = "raise" THEN Raise("ValueError")
     ELSE DecodeAfterIsna(x) : t \in isna_truth(x)}

\* The decoder on a cell read from the CSV (NaN, number or text): a single
\* outcome.
parse_cell(c) == CHOOSE r \in safe_parse_json(c) : TRUE

\* ------------------------------------------------------- pipeline: flatten
\* An all-or-nothing flattener: one non-mapping element discards the list.
entry_rows_strict(item_id, parsed, field) ==
    IF parsed.k # "list" THEN <<>>
    ELSE IF \E i \in 1..Len(parsed.items) : parsed.items[i].k # "dict" THEN <<>>
    ELSE [i \in 1..Len(parsed.items) |->
             IF field = "revenue"
             THEN [item_id |-> item_id, date |-> parsed.items[i].date,
                   revenue |-> parsed.items[i].val]
             ELSE [item_id |-> item_id, date |-> parsed.items[i].date,
                   price |-> parsed.items[i].val]]

\* The rows one raw record contributes to a flattened series: none when the
\* decoded payload is absent or no list, else one row per mapping element
\* (field is "revenue" or "price": the column the value is renamed to).
entry_rows(item_id, parsed, field) ==
    IF parsed.k # "list" THEN <<>>
    ELSE LET F[i \in 0..Len(parsed.items)] ==
                 IF i = 0 THEN <<>>
                 ELSE IF parsed.items[i].k # "dict" THEN F[i - 1]
                 ELSE Append(F[i - 1],
                             IF field = "revenue"
                             THEN [item_id |-> item_id, date |-> parsed.items[i].date,
                                   revenue |-> parsed.items[i].val]
                             ELSE [item_id |-> item_id, date |-> parsed.items[i].date,
                                   price |-> parsed.items[i].val])
         IN F[Len(parsed.items)]

flatten_revenue_history(d) ==
    LET F[i \in 0..Len(d)] ==
            IF i = 0 THEN <<>>
            ELSE F[i - 1] \o entry_rows(d[i].item_id,
                                        parse_cell(d[i].monthly_revenue_history),
                                        "revenue")
    IN F[Len(d)]

flatten_promotion_history(d) ==
    LET F[i \in 0..Len(d)] ==
            IF i = 0 THEN <<>>
            ELSE F[i - 1] \o entry_rows(d[i].item_id,
                                        parse_cell(d[i].promotion_history),
                                        "price")
    IN F[Len(d)]

\* ----------------------------------------------------- pipeline: reconcile
\* pd.to_datetime(..., errors="coerce") on one date field.
to_datetime(d) == IF d \in Nat /\ d >= 1 THEN d ELSE NaT

convert_dates(rows) == [i \in 1..Len(rows) |-> [rows[i] EXCEPT !.date = to_datetime(@)]]

\* The rows of the right frame matching one left row, in the right frame's
\* order.
matches(l, right) ==
    SelectSeq(right, LAMBDA r : r.item_id = l.item_id /\ r.date = l.date)

\* pd.merge(left, right, on=["item_id", "date"], how="left"): every left
\* row, in order, once per matching right row, or once with a null price.
merge_left(left, right) ==
    LET F[i \in 0..Len(left)] ==
            IF i = 0 THEN <<>>
            ELSE LET l == left[i]
                     m == matches(l, right)
                 IN F[i - 1] \o
                    (IF m = <<>>
                     THEN <<[item_id |-> l.item_id, date |-> l.date,
                             revenue |-> l.revenue, price |-> NaN]>>
                     ELSE [j \in 1..Len(m) |->
                              [item_id |-> l.item_id, date |-> l.date,
                               revenue |-> l.revenue, price |-> m[j].price]])
    IN F[Len(left)]

\* Sort key of a date: NaT sorts last (na_position="last").
date_key(d) == IF d = NaT THEN MaxDate + 2 ELSE d

row_before(a, b) ==
    \/ a.item_id < b.item_id
    \/ a.item_id = b.item_id /\ date_key(a.date) < date_key(b.date)

\* sort_values(by=["item_id", "date"]): a stable sort.
insert_sorted(s, r) ==
    LET n == Cardinality({i \in 1..Len(s) : ~row_before(r, s[i])})
    IN SubSeq(s, 1, n) \o <<r>> \o SubSeq(s, n + 1, Len(s))

sort_values(rows) ==
    LET F[i \in 0..Len(rows)] ==
            IF i = 0 THEN <<>> ELSE insert_sorted(F[i - 1], rows[i])
    IN F[Len(rows)]

\* groupby("item_id")["price"].ffill(): a null price takes the price of the
\* nearest earlier row of the same item that has one.
ffill_price(rows) ==
    [i \in 1..Len(rows) |->
        IF rows[i].price # NaN THEN rows[i]
        ELSE LET js == {j \in 1..(i - 1) : rows[j].item_id = rows[i].item_id
                                            /\ rows[j].price # NaN}
             IN IF js = {} THEN rows[i]
                ELSE [rows[i] EXCEPT !.price =
                         rows[CHOOSE j \in js : \A h \in js : h <= j].price]]

\* Steps 2 and 8: the metadata of an item is that of its first raw record
\* (drop_duplicates keep="first"); unique_identifier is modelled by the
\* record's position in the raw table.
first_record(d, item_id) ==
    LET is == {i \in 1..Len(d) : d[i].item_id = item_id}
    IN IF is = {} THEN NaN ELSE CHOOSE i \in is : \A h \in is : i <= h

build_final(rows, d) ==
    sort_values([i \in 1..Len(rows) |->
        [item_id |-> rows[i].item_id, date |-> rows[i].date,
         revenue |-> rows[i].revenue, price |-> rows[i].price,
         unique_identifier |-> first_record(d, rows[i].item_id)]])

\* -------------------------------------------------------- pipeline: main()
RawRecord(i, r, p) ==
    [item_id |-> i, monthly_revenue_history |-> r, promotion_history |-> p]

\* Steps 3 and 4: flatten both series.
Flatten ==
    /\ stage = "loaded"
    /\ revenue_df' = flatten_revenue_history(df)
    /\ promotion_df' = flatten_promotion_history(df)
    /\ stage' = "flattened"
    /\ UNCHANGED <<df, joined_df, merged_df, final_df, decVars, dashVars>>

\* Steps 5 to 10.  The date columns of the two series are converted in
\* place.  A frame built from no records has no columns, and the merge on
\* "item_id" raises KeyError.
Reconcile ==
    /\ stage = "flattened"
    /\ revenue_df' = convert_dates(revenue_df)
    /\ promotion_df' = convert_dates(promotion_df)
    /\ IF revenue_df = <<>> \/ promotion_df = <<>>
       THEN /\ stage' = "KeyError"
            /\ UNCHANGED <<joined_df, merged_df, final_df>>
       ELSE LET j == sort_values(merge_left(convert_dates(revenue_df),
                                            convert_dates(promotion_df)))
            IN /\ joined_df' = j
               /\ merged_df' = ffill_price(j)
               /\ final_df' = build_final(ffill_price(j), df)
               /\ stage' = "done"
    /\ UNCHANGED <<df, decVars, dashVars>>

\* ------------------------------------------------------------ input spaces
Prices == 1..MaxPrice

\* History entries: mappings with a date and a value, and a non-mapping.
Entries(dates, vals) == {Dict(d, v) : d \in dates, v \in vals}
Histories(elems) == {List(s) : s \in SeqsUpTo(elems, MaxLen)}

\* Cells of a history column that do not decode to a list: NaN, a malformed
\* text, a text holding a number, a text holding a mapping.
BadCells == {Nan, Malformed, Text(Num), Text(Dict(1, 1))}

\* Values handed to safe_parse_json: cells of the table and values that are
\* already structured (mappings, lists of any length up to MaxLen).
DecoderInputs ==
    {Nan, Num, Malformed, Text(Num)}
    \cup {Text(j) : j \in Entries(Dates, Prices \cup {NaN})}
    \cup {Text(j) : j \in Histories({Num} \cup Entries(Dates, Prices \cup {NaN}))}
    \cup Entries(Dates, Prices \cup {NaN})
    \cup Histories({None, Num} \cup Entries(Dates, Prices))
    \cup {List(<<h>>) : h \in Histories({None, Num})}

\* Raw tables (of at least one record) whose history cells are bad cells or
\* lists mixing mappings and non-mappings (one date, one value), or holding
\* an entry without a date.
ToleranceCells ==
    BadCells \cup {Text(h) : h \in Histories({Num, Dict(1, 1)})}
             \cup {Text(List(<<Dict(NaN, 1)>>)), Text(List(<<Dict(NaN, 1), Dict(1, 1)>>))}
ToleranceTables ==
    NonEmptySeqsUpTo({RawRecord(i, r, p) : i \in Items, r \in ToleranceCells,
                                   p \in ToleranceCells}, MaxRecords)

\* Raw tables whose history cells are NaN or lists of samples.
RevenueCells == {Nan} \cup {Text(h) : h \in Histories(Entries(Dates, {1}))}
PriceCells == {Nan} \cup {Text(h) : h \in Histories(Entries(Dates, Prices))}
SeriesTables ==
    NonEmptySeqsUpTo({RawRecord(i, r, p) : i \in Items, r \in RevenueCells,
                                   p \in PriceCells}, MaxRecords)

\* ----------------------------------------------------------------- decoder
\* Lines 72-80: the defaults of the sliders (ratings in tenths: 4.0 is 40).
DefaultRatingThresh == 40    \* FILTER_DEFAULTS["f_rating"]
DefaultCountThresh == 200    \* FILTER_DEFAULTS["f_count"]
DefaultGrowthThresh == 20    \* FILTER_DEFAULTS["f_growth"]
NoKpi == [total_rev_latest |-> 0]
SlidersAtDefault ==
    /\ rating_thresh = DefaultRatingThresh /\ count_thresh = DefaultCountThresh
    /\ growth_thresh = DefaultGrowthThresh
DashIdle ==
    /\ raw = <<>> /\ pc = "idle" /\ date_start = NaT /\ date_end = NaT
    /\ item_df = <<>> /\ LATEST_DATE = NaT /\ nearest_4w = NaT
    /\ active_brands = {} /\ active_skus = {}
    /\ filt = <<>> /\ latest = <<>> /\ prev = <<>> /\ kpi = NoKpi
    /\ SlidersAtDefault /\ trend_items = {}
DecIdle == /\ payload = Nan /\ result = None /\ dstage = "idle"
PipeIdle ==
    /\ df = <<>> /\ revenue_df = <<>> /\ promotion_df = <<>> /\ joined_df = <<>>
    /\ merged_df = <<>> /\ final_df = <<>> /\ stage = "idle"

InitDecode ==
    /\ payload \in DecoderInputs
    /\ result = None
    /\ dstage = "call"
    /\ PipeIdle
    /\ DashIdle

Decode ==
    /\ dstage = "call"
    /\ result' \in safe_parse_json(payload)
    /\ dstage' = "returned"
    /\ UNCHANGED <<payload, pipeVars, dashVars>>

NextDecode == Decode
SpecDecode == InitDecode /\ [][NextDecode]_vars

\* ---------------------------------------------------------------- pipeline
InitPipeline(tables) ==
    /\ df \in tables
    /\ revenue_df = <<>> /\ promotion_df = <<>> /\ joined_df = <<>>
    /\ merged_df = <<>> /\ final_df = <<>>
    /\ stage = "loaded"
    /\ DecIdle
    /\ DashIdle

InitSeries == InitPipeline(SeriesTables)
InitTolerance == InitPipeline(ToleranceTables)

NextPipeline == Flatten \/ Reconcile
SpecPipeline == InitSeries /\ [][NextPipeline]_vars
SpecTolerance == InitTolerance /\ [][NextPipeline]_vars

\* =============================================================== dashboard
\* Dates are week numbers; ratings are in tenths (4.0 is 40).
Weeks == 4                   \* pd.Timedelta(weeks=4)

GridStep == 2        \* sampled dates are multiples of GridStep weeks
MaxPeriods == 4      \* ... up to GridStep * MaxPeriods
MaxRev == 2          \* revenues are 0..MaxRev
MaxRows == 3         \* rows of the canonical table

Abs(x) == IF x < 0 THEN -x ELSE x
SameKey(a, b) == a.item_id = b.item_id /\ a.date = b.date

\* A frame that keeps every row (no deduplication).
keep_all(rows) == rows

\* drop_duplicates(subset=["item_id", "date"]): the first row of each key.
drop_duplicates(rows) ==
    LET F[i \in 0..Len(rows)] ==
            IF i = 0 THEN <<>>
            ELSE IF \E j \in 1..(i - 1) : SameKey(rows[j], rows[i]) THEN F[i - 1]
            ELSE Append(F[i - 1], rows[i])
    IN F[Len(rows)]

\* item_df[(date >= date_start) & (date <= date_end)]
date_range(rows, s, e) == SelectSeq(rows, LAMBDA r : r.date >= s /\ r.date <= e)

\* rows["date"].max()
max_date(rows) ==
    CHOOSE d \in {r.date : r \in Range(rows)} : \A r \in Range(rows) : r.date <= d

\* rows["date"].unique(): the dates in order of first appearance.
unique_dates(rows) ==
    LET F[i \in 0..Len(rows)] ==
            IF i = 0 THEN <<>>
            ELSE IF \E j \in 1..(i - 1) : rows[j].date = rows[i].date THEN F[i - 1]
            ELSE Append(F[i - 1], rows[i].date)
    IN F[Len(rows)]

\* min(ds, key=lambda d: abs(d - target)): the first element of ds at the
\* least distance.
min_by_distance(ds, target) ==
    ds[CHOOSE i \in 1..Len(ds) :
          /\ \A j \in 1..Len(ds) : Abs(ds[i] - target) <= Abs(ds[j] - target)
          /\ \A j \in 1..(i - 1) : Abs(ds[j] - target) > Abs(ds[i] - target)]

\* rows["revenue"].sum(): NaN is skipped.
sum_revenue(rows) ==
    LET F[i \in 0..Len(rows)] ==
            IF i = 0 THEN 0
            ELSE F[i - 1] + (IF rows[i].revenue = NaN THEN 0 ELSE rows[i].revenue)
    IN F[Len(rows)]

\* frame["revenue_latest"].sum()
sum_latest(rows) ==
    LET F[i \in 0..Len(rows)] ==
            IF i = 0 THEN 0
            ELSE F[i - 1] + (IF rows[i].revenue_latest = NaN THEN 0
                             ELSE rows[i].revenue_latest)
    IN F[Len(rows)]

\* rows["rating"].sum(): NaN is skipped.
sum_rating(rows) ==
    LET F[i \in 0..Len(rows)] ==
            IF i = 0 THEN 0
            ELSE F[i - 1] + (IF rows[i].rating = NaN THEN 0 ELSE rows[i].rating)
    IN F[Len(rows)]

\* a < b, a > b and a >= b on numbers that may be NaN: False on NaN.
num_lt(a, b) == a # NaN /\ b # NaN /\ a < b
num_gt(a, b) == a # NaN /\ b # NaN /\ a > b
num_ge(a, b) == a # NaN /\ b # NaN /\ a >= b

\* A quotient n / d kept exact.
Ratio(n, d) == [n |-> n, d |-> d]
\* The quotient that is NaN.
RatioNaN == [n |-> 0, d |-> 0]

\* rows["rating"].mean(): the mean of the ratings that are not NaN, NaN
\* when there is none.
mean_rating(rows) ==
    LET rated == SelectSeq(rows, LAMBDA r : r.rating # NaN)
    IN IF Len(rated) = 0 THEN RatioNaN ELSE Ratio(sum_rating(rated), Len(rated))

\* The slider positions the model tries (ratings in tenths).
RatingThresholds == {40, 50}
CountThresholds == {200, 300}
GrowthThresholds == {0, 55}

\* ---- float arithmetic (IEEE 754 binary64, round to nearest, ties to even)
\* A float is s * m * 2^e: a sign s (-1, 0 or 1), and for s # 0 a mantissa
\* m of MantBits bits, written as its leading bit (1) and four digits of base
\* Limb, from the highest down.  The integers that are divided are below
\* 2^18, so that no step leaves the 32-bit integers of the checker.
MantBits == 53
RECURSIVE pow2(_)
pow2(n) == IF n = 0 THEN 1 ELSE 2 * pow2(n - 1)
LimbBits == (MantBits - 1) \div 4
Limb == pow2(LimbBits)
Float(s, e, m) == [k |-> "num", s |-> s, e |-> e, m |-> m]
FloatZero == [k |-> "num", s |-> 0, e |-> 0, m |-> <<>>]
\* A growth that is None / NaN.
Undefined == [k |-> "nan", s |-> 0, e |-> 0, m |-> <<>>]

\* Rounds a mantissa whose dropped part is below (-1), at (0) or above (1)
\* half of its last place.
round_even(s, e, m, half) ==
    IF half > 0 \/ (half = 0 /\ m[5] % 2 = 1)
    THEN IF \A i \in 2..5 : m[i] = Limb - 1
         THEN Float(s, e + 1, <<1, 0, 0, 0, 0>>)
         ELSE LET j == CHOOSE i \in 2..5 :
                           m[i] < Limb - 1 /\ \A h \in (i + 1)..5 : m[h] = Limb - 1
              IN Float(s, e, [i \in 1..5 |->
                                 IF i < j THEN m[i] ELSE IF i = j THEN m[i] + 1 ELSE 0])
    ELSE Float(s, e, m)

RECURSIVE shift_up(_, _)
shift_up(a, b) == IF a >= b THEN 0 ELSE 1 + shift_up(2 * a, b)
RECURSIVE shift_down(_, _)
shift_down(a, b) == IF 2 * b > a THEN 0 ELSE 1 + shift_down(a, 2 * b)

\* The float a / b of two integers, b # 0: the quotient is scaled into
\* [1, 2) and divided out digit by digit.
float_quot(a, b) ==
    IF a = 0 THEN FloatZero
    ELSE LET s == IF (a < 0) = (b < 0) THEN 1 ELSE -1
             mag == IF a < 0 THEN -a ELSE a
             div == IF b < 0 THEN -b ELSE b
             k == IF mag >= div THEN shift_down(mag, div) ELSE -shift_up(mag, div)
             num == IF k < 0 THEN mag * pow2(-k) ELSE mag
             den == IF k > 0 THEN div * pow2(k) ELSE div
             t1 == (num - den) * Limb
             t2 == (t1 % den) * Limb
             t3 == (t2 % den) * Limb
             t4 == (t3 % den) * Limb
             r == t4 % den
         IN round_even(s, k - (MantBits - 1),
                       <<1, t1 \div den, t2 \div den, t3 \div den, t4 \div den>>,
                       IF 2 * r > den THEN 1 ELSE IF 2 * r = den THEN 0 ELSE -1)

\* The float x * c, c an integer from 1 to Limb: the product of the
\* mantissa, shifted back to MantBits bits and rounded.
float_times(x, c) ==
    IF x.k = "nan" \/ x.s = 0 THEN x
    ELSE LET v5 == x.m[5] * c
             v4 == x.m[4] * c + v5 \div Limb
             v3 == x.m[3] * c + v4 \div Limb
             v2 == x.m[2] * c + v3 \div Limb
             v1 == x.m[1] * c + v2 \div Limb
             d == shift_down(v1, 1)
             D == pow2(d)
             U == pow2(LimbBits - d)
             dropped == (v5 % Limb) % D
         IN round_even(x.s, x.e + d,
                       <<v1 \div D,
                         (v1 % D) * U + (v2 % Limb) \div D,
                         ((v2 % Limb) % D) * U + (v3 % Limb) \div D,
                         ((v3 % Limb) % D) * U + (v4 % Limb) \div D,
                         ((v4 % Limb) % D) * U + (v5 % Limb) \div D>>,
                       IF 2 * dropped > D THEN 1
                       ELSE IF 2 * dropped = D /\ d > 0 THEN 0 ELSE -1)

\* x < y on floats: False when one of them is NaN.
mag_lt(x, y) ==
    \/ x.e < y.e
    \/ x.e = y.e /\ \E i \in 2..5 :
                        x.m[i] < y.m[i] /\ \A h \in 2..(i - 1) : x.m[h] = y.m[h]
float_lt(x, y) ==
    /\ x.k = "num" /\ y.k = "num"
    /\ \/ x.s < y.s
       \/ x.s = 1 /\ y.s = 1 /\ mag_lt(x, y)
       \/ x.s = -1 /\ y.s = -1 /\ mag_lt(y, x)

\* (a / b) * 100 as line 153 and line 170 compute it.
float_pct(a, b) == float_times(float_quot(a, b), 100)

\* growth > t and growth < t on a column that may hold None: False on None.
growth_gt(g, t) == float_lt(float_quot(t, 1), g)
growth_lt(g, t) == float_lt(g, float_quot(t, 1))

\* A variant that applies the per-item rule to the portfolio.
portfolio_growth_undefined(total_rev_latest, total_rev_4w) ==
    IF total_rev_4w # 0
    THEN float_pct(total_rev_latest - total_rev_4w, total_rev_4w)
    ELSE Undefined

\* Line 153: the growth of the portfolio, 0 without a reference sum.
portfolio_growth(total_rev_latest, total_rev_4w) ==
    IF total_rev_4w # 0
    THEN float_pct(total_rev_latest - total_rev_4w, total_rev_4w)
    ELSE FloatZero

\* A variant whose guard is "not 0" rather than "above 0".
item_growth_nonzero(revenue_latest, revenue_4w) ==
    IF revenue_4w # NaN /\ revenue_4w # 0 /\ revenue_latest # NaN
    THEN float_pct(revenue_latest - revenue_4w, revenue_4w)
    ELSE Undefined

\* Lines 169-172: the growth of one item, None without a reference revenue
\* above 0 (and NaN when the latest revenue is NaN).
item_growth(revenue_latest, revenue_4w) ==
    IF revenue_4w # NaN /\ revenue_4w > 0 /\ revenue_latest # NaN
    THEN float_pct(revenue_latest - revenue_4w, revenue_4w)
    ELSE Undefined

\* The keys of a groupby, ascending.
sorted_ids(S) ==
    [i \in 1..Cardinality(S) |-> CHOOSE x \in S : Cardinality({y \in S : y < x}) = i - 1]

\* agg(col=(col, "first")): the first value of the group that is not null.
group_first(rows, item_id, col) ==
    LET is == {i \in 1..Len(rows) : rows[i].item_id = item_id /\ rows[i][col] # NaN}
    IN IF is = {} THEN NaN ELSE rows[CHOOSE i \in is : \A h \in is : i <= h][col]

\* Lines 159-172: one row per item of the latest snapshot, left-merged with
\* the item's revenue in the reference snapshot.
sku_merged(lat, prv) ==
    LET ids == sorted_ids({r.item_id : r \in Range(lat)})
    IN [n \in 1..Len(ids) |->
           LET revenue_latest == group_first(lat, ids[n], "revenue")
               revenue_4w == group_first(prv, ids[n], "revenue")
           IN [item_id |-> ids[n],
               revenue_latest |-> revenue_latest,
               rating |-> group_first(lat, ids[n], "rating"),
               rating_count |-> group_first(lat, ids[n], "rating_count"),
               brand_name |-> group_first(lat, ids[n], "brand_name"),
               revenue_4w |-> revenue_4w,
               growth_pct |-> item_growth(revenue_latest, revenue_4w)]]

\* A variant that selects on the growth alone.
high_scaling_any_rating(sm, rt, gt) ==
    SelectSeq(sm, LAMBDA r : growth_gt(r.growth_pct, gt))

\* Lines 174-176.
high_scaling(sm, rt, gt) ==
    SelectSeq(sm, LAMBDA r : growth_gt(r.growth_pct, gt) /\ num_ge(r.rating, rt))

\* A variant that looks at the growth first.
risk_label_growth_first(r, rt, ct, gt) ==
    IF growth_gt(r.growth_pct, gt) THEN "High-Scaling"
    ELSE IF num_lt(r.rating, rt) /\ num_gt(r.rating_count, ct) THEN "At Risk"
    ELSE "Stable"

\* Lines 269-271: the label of one row of the scatter data.
risk_label(r, rt, ct, gt) ==
    IF num_lt(r.rating, rt) /\ num_gt(r.rating_count, ct) THEN "At Risk"
    ELSE IF growth_gt(r.growth_pct, gt) /\ num_ge(r.rating, rt) THEN "High-Scaling"
    ELSE "Stable"

\* Lines 266-272: the rows with a growth, each with its label.
scatter_data(sm, rt, ct, gt) ==
    LET kept == SelectSeq(sm, LAMBDA r : r.growth_pct # Undefined)
    IN [n \in 1..Len(kept) |->
           [item_id |-> kept[n].item_id, growth_pct |-> kept[n].growth_pct,
            risk_label |-> risk_label(kept[n], rt, ct, gt)]]

\* Line 374: the items with a negative growth, by growth ascending.
insert_by_growth(s, r) ==
    LET n == Cardinality({i \in 1..Len(s) :
                 ~float_lt(r.growth_pct, s[i].growth_pct)})
    IN SubSeq(s, 1, n) \o <<r>> \o SubSeq(s, n + 1, Len(s))
declining(sm) ==
    LET neg == SelectSeq(sm, LAMBDA r : growth_lt(r.growth_pct, 0))
        F[i \in 0..Len(neg)] ==
            IF i = 0 THEN <<>> ELSE insert_by_growth(F[i - 1], neg[i])
    IN F[Len(neg)]

\* Lines 453-461: the revenue of each (date, item) of the SKUs picked in
\* the trend tab, or the revenue of each date when none is picked.
trend_agg(f, ti) ==
    IF ti # {}
    THEN [key \in {<<r.date, r.item_id>> : r \in {x \in Range(f) : x.item_id \in ti}} |->
             LET is == {i \in 1..Len(f) : /\ f[i].date = key[1]
                                          /\ f[i].item_id = key[2]
                                          /\ f[i].revenue # NaN}
             IN IF is = {} THEN NaN
                ELSE f[CHOOSE i \in is : \A h \in is : i <= h].revenue]
    ELSE [d \in {r.date : r \in Range(f)} |->
             sum_revenue(SelectSeq(f, LAMBDA r : r.date = d))]

\* Lines 148-180 and the aggregates of the tabs (lines 266-272, 307, 374,
\* 447-461).
compute_kpi(f, lat, prv, rt, ct, gt, ti) ==
    LET total_rev_latest == sum_revenue(lat)
        total_rev_4w == sum_revenue(prv)
        risky == SelectSeq(lat, LAMBDA r : num_lt(r.rating, rt)
                                           /\ num_gt(r.rating_count, ct))
        sm == sku_merged(lat, prv)
    IN [total_rev_latest |-> total_rev_latest,
        total_rev_4w |-> total_rev_4w,
        growth_pct |-> portfolio_growth(total_rev_latest, total_rev_4w),
        risky |-> risky,
        rev_at_risk |-> sum_revenue(risky),
        sku_merged |-> sm,
        high_scaling |-> high_scaling(sm, rt, gt),
        high_scaling_count |-> Len(high_scaling(sm, rt, gt)),
        high_scaling_rev |-> sum_latest(high_scaling(sm, rt, gt)),
        scatter_data |-> scatter_data(sm, rt, ct, gt),
        declining |-> declining(sm),
        avg_rating |-> IF Len(lat) # 0 THEN mean_rating(lat) ELSE Ratio(0, 1),
        brand_rev |-> [b \in {r.brand_name : r \in Range(lat)} |->
                          sum_revenue(SelectSeq(lat, LAMBDA r : r.brand_name = b))],
        trend_agg |-> trend_agg(f, ti)]

\* The dates the two date inputs offer: min_value to max_value of the table.
DashDates == {GridStep * k : k \in 1..MaxPeriods}
DateInputs == {d \in DashDates : /\ \E r \in Range(raw) : r.date <= d
                                 /\ \E r \in Range(raw) : d <= r.date}

\* A variant without the validation.
invalid_range_never(s, e) == FALSE

\* Line 108: the validation of the two date inputs.
invalid_range(s, e) == s > e

\* Lines 91-117: the date inputs, the validation, the date filter and the
\* two window dates.  min() of no dates raises ValueError.
PickDates ==
    /\ pc = "sidebar"
    /\ \E s \in DateInputs, e \in DateInputs :
        /\ date_start' = s
        /\ date_end' = e
        /\ IF invalid_range(s, e)
           THEN /\ pc' = "stopped"
                /\ UNCHANGED <<item_df, LATEST_DATE, nearest_4w>>
           ELSE LET idf == date_range(item_df, s, e)
                IN /\ item_df' = idf
                   /\ IF idf = <<>>
                      THEN /\ LATEST_DATE' = NaT
                           /\ nearest_4w' = NaT
                           /\ pc' = "ValueError"
                      ELSE /\ LATEST_DATE' = max_date(idf)
                           /\ nearest_4w' = min_by_distance(unique_dates(idf),
                                                            max_date(idf) - Weeks)
                           /\ pc' = "filters"
    /\ UNCHANGED <<raw, active_brands, active_skus, filt, latest, prev, kpi>>
    /\ UNCHANGED <<rating_thresh, count_thresh, growth_thresh, trend_items>>
    /\ UNCHANGED <<decVars, pipeVars>>

\* Lines 119-180 and the tabs: the brand and SKU selections, the filtered
\* table, the two snapshots, the KPIs and the SKUs picked in the trend tab.
SelectFilters ==
    /\ pc = "filters"
    /\ LET all_brands == {r.brand_name : r \in Range(item_df)}
       IN \E sel_brands \in SUBSET all_brands :
           LET ab == IF sel_brands # {} THEN sel_brands ELSE all_brands
               all_skus == {r.item_id : r \in {x \in Range(item_df) : x.brand_name \in ab}}
           IN \E sel_skus \in SUBSET all_skus :
               LET as == IF sel_skus # {} THEN sel_skus ELSE all_skus
                   f == SelectSeq(item_df, LAMBDA r : r.brand_name \in ab
                                                       /\ r.item_id \in as)
                   lat == SelectSeq(f, LAMBDA r : r.date = LATEST_DATE)
                   prv == SelectSeq(f, LAMBDA r : r.date = nearest_4w)
               IN \E ti \in SUBSET {r.item_id : r \in Range(f)} :
                  /\ active_brands' = ab
                  /\ active_skus' = as
                  /\ filt' = f
                  /\ latest' = lat
                  /\ prev' = prv
                  /\ trend_items' = ti
                  /\ kpi' = compute_kpi(f, lat, prv, rating_thresh, count_thresh,
                                        growth_thresh, ti)
    /\ pc' = "rendered"
    /\ UNCHANGED <<raw, date_start, date_end, item_df, LATEST_DATE, nearest_4w>>
    /\ UNCHANGED <<rating_thresh, count_thresh, growth_thresh, decVars, pipeVars>>

\* Lines 123-125: the three sliders are moved before the run goes on.
MoveSliders ==
    /\ pc = "filters"
    /\ rating_thresh' \in RatingThresholds
    /\ count_thresh' \in CountThresholds
    /\ growth_thresh' \in GrowthThresholds
    /\ UNCHANGED <<raw, pc, date_start, date_end, item_df, LATEST_DATE, nearest_4w,
                   active_brands, active_skus, filt, latest, prev, kpi,
                   trend_items>>
    /\ UNCHANGED <<decVars, pipeVars>>

\* "Clear Filters" (lines 82-84, 134) puts every widget back to its default
\* and reruns the script on the cached table.
Rerun ==
    /\ pc \in {"rendered", "stopped", "ValueError"}
    /\ pc' = "sidebar"
    /\ item_df' = drop_duplicates(raw)
    /\ date_start' = NaT /\ date_end' = NaT
    /\ LATEST_DATE' = max_date(raw) /\ nearest_4w' = NaT
    /\ active_brands' = {} /\ active_skus' = {}
    /\ filt' = <<>> /\ latest' = <<>> /\ prev' = <<>> /\ kpi' = NoKpi
    /\ rating_thresh' = DefaultRatingThresh
    /\ count_thresh' = DefaultCountThresh
    /\ growth_thresh' = DefaultGrowthThresh
    /\ trend_items' = {}
    /\ UNCHANGED <<raw, decVars, pipeVars>>

\* Canonical tables as the pipeline writes them: sorted by (item, date), the
\* metadata of a row that of its item.  Item i belongs to one of the brands
\* 1..i; item 1 is rated 3.5, the others 4.5, all with 300 ratings.
BrandMaps == {f \in [Items -> Items] : \A i \in Items : f[i] <= i}
ItemRating(i) == IF i = 1 THEN 35 ELSE 45
ItemRatingCount(i) == 300
CanonicalRow(i, d, v, bm) ==
    [item_id |-> i, date |-> d, revenue |-> v, brand_name |-> bm[i],
     rating |-> ItemRating(i), rating_count |-> ItemRatingCount(i)]
IsSorted(t) == \A i, j \in 1..Len(t) : i < j => ~row_before(t[j], t[i])
CanonicalTables ==
    UNION {{t \in NonEmptySeqsUpTo({CanonicalRow(i, d, v, bm) :
                                       i \in Items, d \in DashDates, v \in 0..MaxRev},
                                   MaxRows) : IsSorted(t)} : bm \in BrandMaps}

InitDash ==
    /\ raw \in CanonicalTables
    /\ pc = "sidebar"
    /\ item_df = drop_duplicates(raw)
    /\ date_start = NaT /\ date_end = NaT
    /\ LATEST_DATE = max_date(raw) /\ nearest_4w = NaT
    /\ active_brands = {} /\ active_skus = {}
    /\ filt = <<>> /\ latest = <<>> /\ prev = <<>> /\ kpi = NoKpi
    /\ SlidersAtDefault /\ trend_items = {}
    /\ DecIdle
    /\ PipeIdle

NextDash == PickDates \/ SelectFilters \/ Rerun
SpecDash == InitDash /\ [][NextDash]_vars

\* The dashboard with its sliders moved, on tables sampled every Weeks weeks:
\* the canonical tables above with such dates, and the full panels, in which
\* every item has a row at Weeks and at 2 * Weeks.
\* The revenues of a panel are 0, 20 or 31, and item 1 is rated as above or
\* has no rating (its page content lacks one).
PanelRevenues == {0, 20, 31}
PanelRow(i, d, v, bm, unrated) ==
    [CanonicalRow(i, d, v, bm) EXCEPT !.rating = IF i \in unrated THEN NaN ELSE @]
PanelTables ==
    {t \in UNION {{[n \in 1..(2 * MaxItem) |->
                      PanelRow((n + 1) \div 2, (2 - (n % 2)) * Weeks,
                               rev[n], bm, unrated)] :
                   rev \in [1..(2 * MaxItem) -> PanelRevenues]} :
                  bm \in BrandMaps, unrated \in {{}, {1}}} :
        IsSorted(t)}
KpiTables ==
    {t \in CanonicalTables : \A r \in Range(t) : r.date % Weeks = 0}
        \cup PanelTables
InitKpi ==
    /\ raw \in KpiTables
    /\ pc = "sidebar"
    /\ item_df = drop_duplicates(raw)
    /\ date_start = NaT /\ date_end = NaT
    /\ LATEST_DATE = max_date(raw) /\ nearest_4w = NaT
    /\ active_brands = {} /\ active_skus = {}
    /\ filt = <<>> /\ latest = <<>> /\ prev = <<>> /\ kpi = NoKpi
    /\ SlidersAtDefault /\ trend_items = {}
    /\ DecIdle
    /\ PipeIdle
NextKpi == PickDates \/ MoveSliders \/ SelectFilters \/ Rerun
SpecKpi == InitKpi /\ [][NextKpi]_vars

\* The same dashboard on tables that also hold a negative revenue (a month
\* of refunds): the tables above and the full panels with revenues -2, 0
\* or 20.  (NaN is written -1, so the negative revenue is -2.)
SignedRevenues == {-2, 0, 20}
SignedPanelTables ==
    {t \in UNION {{[n \in 1..(2 * MaxItem) |->
                      CanonicalRow((n + 1) \div 2, (2 - (n % 2)) * Weeks,
                                   rev[n], bm)] :
                   rev \in [1..(2 * MaxItem) -> SignedRevenues]} : bm \in BrandMaps} :
        IsSorted(t)}
InitGrowth ==
    /\ raw \in KpiTables \cup SignedPanelTables
    /\ pc = "sidebar"
    /\ item_df = drop_duplicates(raw)
    /\ date_start = NaT /\ date_end = NaT
    /\ LATEST_DATE = max_date(raw) /\ nearest_4w = NaT
    /\ active_brands = {} /\ active_skus = {}
    /\ filt = <<>> /\ latest = <<>> /\ prev = <<>> /\ kpi = NoKpi
    /\ SlidersAtDefault /\ trend_items = {}
    /\ DecIdle
    /\ PipeIdle
SpecGrowth == InitGrowth /\ [][NextKpi]_vars

\* The three programs together.
Init == InitDecode \/ InitSeries \/ InitTolerance \/ InitDash \/ InitKpi \/ InitGrowth
Next == NextDecode \/ NextPipeline \/ NextDash \/ NextKpi
Spec == Init /\ [][Next]_vars

\* ================================================================== claims
Keys(rows) == {<<r.item_id, to_datetime(r.date)>> : r \in Range(rows)}

\* C1: full outer join - every (item, date) of the revenue series
\* or of the price series is a row of the reconciled output.
C1_FullOuterJoin ==
    stage = "done" => Keys(revenue_df) \cup Keys(promotion_df) \subseteq Keys(merged_df)

\* The non-null price samples of an item at the latest date before d.
LatestEarlierSamples(item_id, d) ==
    LET S == {r \in Range(promotion_df) :
                 r.item_id = item_id /\ r.price # NaN /\ to_datetime(r.date) < d}
    IN {r.price : r \in {x \in S : \A y \in S : to_datetime(y.date) <= to_datetime(x.date)}}

\* C2: the price of a reconciled row is its own price sample, or
\* the most recent non-null price sample of the same item at an earlier date,
\* and null when the item has no earlier price sample.
C2_FillFromLatestSample ==
    stage = "done" =>
        \A i \in 1..Len(merged_df) :
            LET own == joined_df[i].price
                cand == LatestEarlierSamples(merged_df[i].item_id, merged_df[i].date)
            IN IF own # NaN THEN merged_df[i].price = own
               ELSE IF cand = {} THEN merged_df[i].price = NaN
               ELSE merged_df[i].price \in cand

\* C3: safe_parse_json never raises, whatever value it is given.
C3_DecoderNeverRaises ==
    dstage = "returned" => result.k # "raise"

WellFormed(cell) == cell.k = "text" /\ cell.ok /\ cell.doc.k = "list"
MappingIndexes(cell) ==
    IF WellFormed(cell)
    THEN {i \in 1..Len(cell.doc.items) : cell.doc.items[i].k = "dict"}
    ELSE {}
\* Rows of the flattened frame owed to the first k records.
Offset(d, col, k) ==
    LET F[i \in 0..k] ==
            IF i = 0 THEN 0 ELSE F[i - 1] + Cardinality(MappingIndexes(d[i][col]))
    IN F[k]
Tolerant(d, col, frame, flat_of_good) ==
    /\ Len(frame) = Offset(d, col, Len(d))
    /\ \A k \in 1..Len(d) :
           /\ ~WellFormed(d[k][col]) => Offset(d, col, k) = Offset(d, col, k - 1)
           /\ \A n \in (Offset(d, col, k - 1) + 1)..Offset(d, col, k) :
                  /\ frame[n].item_id = d[k].item_id
                  /\ \E i \in MappingIndexes(d[k][col]) :
                         /\ Cardinality({h \in MappingIndexes(d[k][col]) : h <= i})
                                = n - Offset(d, col, k - 1)
                         /\ frame[n].date = d[k][col].doc.items[i].date
    /\ frame = flat_of_good

\* C4: a record whose history payload is null, malformed or no list gives no
\* row, the rows of the other records are those the table without the bad
\* records gives, and in a list every mapping gives exactly one row while the
\* other elements are skipped.
\* After step 5 the two frames hold the same rows with their dates converted.
C4_FlattenerTolerance ==
    /\ stage = "flattened" =>
        /\ Tolerant(df, "monthly_revenue_history", revenue_df,
                    flatten_revenue_history(
                        SelectSeq(df, LAMBDA r : WellFormed(r.monthly_revenue_history))))
        /\ Tolerant(df, "promotion_history", promotion_df,
                    flatten_promotion_history(
                        SelectSeq(df, LAMBDA r : WellFormed(r.promotion_history))))
    /\ stage \in {"done", "KeyError"} =>
        /\ Len(revenue_df) = Offset(df, "monthly_revenue_history", Len(df))
        /\ revenue_df = convert_dates(flatten_revenue_history(
               SelectSeq(df, LAMBDA r : WellFormed(r.monthly_revenue_history))))
        /\ Len(promotion_df) = Offset(df, "promotion_history", Len(df))
        /\ promotion_df = convert_dates(flatten_promotion_history(
               SelectSeq(df, LAMBDA r : WellFormed(r.promotion_history))))

C4_Witness ==
    /\ stage = "flattened"
    /\ \E a, b \in 1..Len(df) :
           /\ ~WellFormed(df[a].monthly_revenue_history)
           /\ WellFormed(df[b].monthly_revenue_history)
           /\ MappingIndexes(df[b].monthly_revenue_history) # {}
           /\ \E i \in 1..Len(df[b].monthly_revenue_history.doc.items) :
                  df[b].monthly_revenue_history.doc.items[i].k # "dict"
    /\ Len(revenue_df) >= 1

\* C5: whatever the raw table holds, main() ends without raising.
C5_PipelineNeverFails ==
    stage # "KeyError"

\* --------------------------------------------------------------- dashboard
\* The first row of the canonical table with a given (item, date).
FirstRow(key) ==
    raw[CHOOSE i \in 1..Len(raw) :
           /\ raw[i].item_id = key[1] /\ raw[i].date = key[2]
           /\ \A j \in 1..(i - 1) : ~(raw[j].item_id = key[1] /\ raw[j].date = key[2])]
\* The (item, date) pairs of the canonical table that pass the date range,
\* the brand selection and the item selection.
ScopeKeys ==
    {key \in {<<r.item_id, r.date>> : r \in Range(raw)} :
        /\ date_start <= key[2] /\ key[2] <= date_end
        /\ FirstRow(key).brand_name \in active_brands
        /\ key[1] \in active_skus}
RECURSIVE SumKeys(_)
SumKeys(S) ==
    IF S = {} THEN 0
    ELSE LET key == CHOOSE x \in S : TRUE
         IN FirstRow(key).revenue + SumKeys(S \ {key})
AtRisk(r) ==
    /\ r.rating # NaN /\ r.rating < DefaultRatingThresh
    /\ r.rating_count # NaN /\ r.rating_count > DefaultCountThresh

\* C6: every portfolio revenue aggregate counts the revenue of an (item,
\* date) once, however many rows of the canonical table repeat it.
C6_RevenueCountedOnce ==
    pc = "rendered" =>
        /\ kpi.total_rev_latest = SumKeys({x \in ScopeKeys : x[2] = LATEST_DATE})
        /\ kpi.total_rev_4w = SumKeys({x \in ScopeKeys : x[2] = nearest_4w})
        /\ kpi.rev_at_risk =
               SumKeys({x \in ScopeKeys : x[2] = LATEST_DATE /\ AtRisk(FirstRow(x))})
        /\ \A b \in DOMAIN kpi.brand_rev :
               kpi.brand_rev[b] =
                   SumKeys({x \in ScopeKeys : /\ x[2] = LATEST_DATE
                                              /\ FirstRow(x).brand_name = b})
        /\ trend_items = {} =>
               \A d \in DOMAIN kpi.trend_agg :
                   kpi.trend_agg[d] = SumKeys({x \in ScopeKeys : x[2] = d})
        /\ trend_items # {} =>
               /\ DOMAIN kpi.trend_agg =
                      {<<x[2], x[1]>> : x \in {y \in ScopeKeys : y[1] \in trend_items}}
               /\ \A key \in DOMAIN kpi.trend_agg :
                      kpi.trend_agg[key] = FirstRow(<<key[2], key[1]>>).revenue

C6_Witness ==
    /\ pc = "rendered"
    /\ \E a, b \in 1..Len(raw) :
           /\ a < b /\ SameKey(raw[a], raw[b])
           /\ raw[a].revenue = raw[b].revenue /\ raw[a].revenue > 0
           /\ raw[a].date = LATEST_DATE
           /\ <<raw[a].item_id, raw[a].date>> \in ScopeKeys
           /\ AtRisk(raw[a])
           /\ kpi.total_rev_latest = raw[a].revenue
           /\ kpi.rev_at_risk = raw[a].revenue

FiltDates == {r.date : r \in Range(filt)}

\* C7: the reference date is one of the dates of the filtered table (date
\* range, brands and items), and none of them is nearer to the latest date
\* of that table minus 4 weeks.
C7_ReferenceDateInFilteredTable ==
    (pc = "rendered" /\ filt # <<>>) =>
        /\ nearest_4w \in FiltDates
        /\ \A d \in FiltDates :
               Abs(d - (max_date(filt) - Weeks)) >= Abs(nearest_4w - (max_date(filt) - Weeks))

\* C8: of two dates at the same least distance from the latest date minus
\* 4 weeks, the earlier one is the reference date.
C8_TieBreakEarliest ==
    pc \in {"filters", "rendered"} =>
        \A d1, d2 \in {r.date : r \in Range(item_df)} :
            (/\ d1 < d2
             /\ Abs(d1 - (LATEST_DATE - Weeks)) = Abs(d2 - (LATEST_DATE - Weeks))
             /\ \A d \in {r.date : r \in Range(item_df)} :
                    Abs(d - (LATEST_DATE - Weeks)) >= Abs(d1 - (LATEST_DATE - Weeks)))
            => nearest_4w = d1

\* C9: the latest snapshot is the rows of the filtered table at the greatest
\* date of the filtered table, so it is empty only when that table is.
C9_LatestSnapshot ==
    pc = "rendered" =>
        /\ filt # <<>> => latest = SelectSeq(filt, LAMBDA r : r.date = max_date(filt))
        /\ filt # <<>> => latest # <<>>

\* C10: a valid date range that leaves no row ends with defined KPI values
\* (zero sums, zero growth, no average rating, empty tables), not with an
\* exception.
C10_EmptyResultDegrades ==
    (pc \in {"ValueError", "filters", "rendered"} /\ date_start <= date_end
        /\ item_df = <<>>) =>
        /\ pc # "ValueError"
        /\ pc = "rendered" =>
               /\ kpi.total_rev_latest = 0 /\ kpi.total_rev_4w = 0
               /\ kpi.rev_at_risk = 0 /\ kpi.growth_pct = FloatZero
               /\ kpi.avg_rating.n = 0
               /\ filt = <<>> /\ latest = <<>> /\ prev = <<>>

\* The ids of the rows of a frame.
Ids(rows) == {r.item_id : r \in Range(rows)}
\* The revenue of an item in a snapshot (one row per item), NaN without a row.
RevenueIn(snapshot, item_id) ==
    IF item_id \in Ids(snapshot)
    THEN (CHOOSE r \in Range(snapshot) : r.item_id = item_id).revenue
    ELSE NaN

\* C11: every item of the latest snapshot has one row of per-item figures;
\* its growth is (latest - reference) / reference * 100 when the reference
\* snapshot holds a revenue above 0 for the item and is undefined (None)
\* otherwise, and an item with an undefined growth is neither high-scaling
\* nor declining.
C11_GrowthNullPropagation ==
    pc = "rendered" =>
        /\ Ids(kpi.sku_merged) = Ids(latest)
        /\ \A n \in 1..Len(kpi.sku_merged) :
               LET r == kpi.sku_merged[n]
                   rl == RevenueIn(latest, r.item_id)
                   r4 == RevenueIn(prev, r.item_id)
               IN /\ \A m \in 1..Len(kpi.sku_merged) :
                         kpi.sku_merged[m].item_id = r.item_id => m = n
                  /\ (r4 # NaN /\ r4 > 0) =>
                         /\ r.growth_pct = float_times(float_quot(rl - r4, r4), 100)
                         /\ r.growth_pct.k = "num"
                         /\ ((rl > r4) <=> (r.growth_pct.s = 1))
                         /\ ((rl < r4) <=> (r.growth_pct.s = -1))
                  /\ (r4 = NaN \/ r4 <= 0) =>
                         /\ r.growth_pct = Undefined
                         /\ r.item_id \notin Ids(kpi.high_scaling)
                         /\ r.item_id \notin Ids(kpi.declining)

\* One item with a negative reference revenue and a latest revenue above
\* 0, next to an item whose revenue fell.
C11_Witness ==
    /\ pc = "rendered"
    /\ \E a, b \in 1..Len(kpi.sku_merged) :
           /\ kpi.sku_merged[a].revenue_4w # NaN
           /\ kpi.sku_merged[a].revenue_4w < 0
           /\ kpi.sku_merged[a].revenue_latest > 0
           /\ kpi.sku_merged[a].growth_pct = Undefined
           /\ kpi.sku_merged[b].revenue_4w > kpi.sku_merged[b].revenue_latest
           /\ kpi.sku_merged[b].item_id \in Ids(kpi.declining)

\* C12: the portfolio growth is (latest sum - reference sum) / reference sum
\* * 100 over the filtered deduplicated (item, date) pairs, and exactly 0 when
\* the reference snapshot is empty or sums to 0, whatever the per-item
\* growths are.
C12_PortfolioGrowthZeroPolicy ==
    pc = "rendered" =>
        LET L == SumKeys({x \in ScopeKeys : x[2] = LATEST_DATE})
            R == SumKeys({x \in ScopeKeys : x[2] = nearest_4w})
        IN /\ R # 0 => /\ kpi.growth_pct = float_times(float_quot(L - R, R), 100)
                        /\ ((L > R) <=> (kpi.growth_pct.s = 1))
                        /\ ((L < R) <=> (kpi.growth_pct.s = -1))
           /\ (prev = <<>> \/ R = 0) => kpi.growth_pct = FloatZero

\* An empty reference snapshot under a latest snapshot with revenue, so that
\* a per-item growth is undefined while the portfolio growth is 0.
C12_Witness ==
    /\ pc = "rendered"
    /\ prev = <<>>
    /\ kpi.total_rev_latest > 0
    /\ kpi.growth_pct = FloatZero
    /\ \E n \in 1..Len(kpi.sku_merged) : kpi.sku_merged[n].growth_pct = Undefined

\* C13: a run whose start date is later than its end date stops at the
\* validation: no filtered table, snapshot or KPI is produced by it, and the
\* loaded canonical table is the same after the step as before.
C13_InvalidRangeRejected ==
    [][(pc = "sidebar" /\ date_start' > date_end') =>
           /\ pc' = "stopped"
           /\ raw' = raw
           /\ item_df' = item_df /\ item_df' = drop_duplicates(raw)
           /\ nearest_4w' = NaT
           /\ filt' = <<>> /\ latest' = <<>> /\ prev' = <<>>
           /\ kpi' = NoKpi]_vars

\* A stopped run on a loaded table that has rows inside the date inputs.
C13_Witness ==
    /\ pc = "stopped"
    /\ date_start > date_end
    /\ kpi = NoKpi
    /\ \E r \in Range(raw) : date_end <= r.date /\ r.date <= date_start

\* The row of an item in the latest snapshot.
LatestRow(item_id) == CHOOSE r \in Range(latest) : r.item_id = item_id
\* The At-Risk predicate at the current slider positions.
IsAtRisk(r) ==
    /\ r.rating # NaN /\ r.rating < rating_thresh
    /\ r.rating_count # NaN /\ r.rating_count > count_thresh

\* C14: the single-label view has one row per item with a growth, labelled
\* At Risk when the item's rating is below the rating threshold and its
\* rating count above the count threshold, whatever its growth; High-Scaling
\* when it is not At Risk and its growth is above the growth threshold and
\* its rating at least the rating threshold; and Stable in every other case.
C14_ClassificationPrecedence ==
    pc = "rendered" =>
        /\ Ids(kpi.scatter_data) =
               {r.item_id : r \in {x \in Range(kpi.sku_merged) : x.growth_pct # Undefined}}
        /\ \A n \in 1..Len(kpi.scatter_data) :
               LET row == kpi.scatter_data[n]
                   r == LatestRow(row.item_id)
                   g == row.growth_pct
                   scaling == /\ growth_gt(g, growth_thresh)
                              /\ r.rating # NaN /\ r.rating >= rating_thresh
               IN /\ \A m \in 1..Len(kpi.scatter_data) :
                         kpi.scatter_data[m].item_id = row.item_id => m = n
                  /\ g.k = "num"
                  /\ row.risk_label \in {"At Risk", "High-Scaling", "Stable"}
                  /\ row.risk_label = "At Risk" <=> IsAtRisk(r)
                  /\ row.risk_label = "High-Scaling" <=> (~IsAtRisk(r) /\ scaling)
                  /\ row.risk_label = "Stable" <=> (~IsAtRisk(r) /\ ~scaling)

\* An item labelled At Risk although its growth is above the growth
\* threshold, next to an item labelled High-Scaling, with the growth slider
\* moved up.
C14_Witness ==
    /\ pc = "rendered"
    /\ growth_thresh > DefaultGrowthThresh
    /\ \E a, b \in 1..Len(kpi.scatter_data) :
           /\ kpi.scatter_data[a].risk_label = "At Risk"
           /\ growth_gt(kpi.scatter_data[a].growth_pct, growth_thresh)
           /\ kpi.scatter_data[b].risk_label = "High-Scaling"

\* C15: at every slider position no item is both in the at-risk set behind
\* the revenue at risk and in the high-scaling set behind the high-scaling
\* count and revenue, no item of either set carries the other label, and the
\* two revenues together are at most the revenue of the latest snapshot.
C15_AtRiskHighScalingExclusive ==
    pc = "rendered" =>
        /\ Ids(kpi.risky) \cap Ids(kpi.high_scaling) = {}
        /\ \A r \in Range(latest) :
               IsAtRisk(r) => /\ r.item_id \in Ids(kpi.risky)
                              /\ r.item_id \notin Ids(kpi.high_scaling)
        /\ \A n \in 1..Len(kpi.scatter_data) :
               LET row == kpi.scatter_data[n]
               IN /\ row.item_id \in Ids(kpi.risky) => row.risk_label # "High-Scaling"
                  /\ row.item_id \in Ids(kpi.high_scaling) => row.risk_label # "At Risk"
        /\ kpi.high_scaling_count = Cardinality(Ids(kpi.high_scaling))
        /\ kpi.rev_at_risk + kpi.high_scaling_rev <= kpi.total_rev_latest

\* An at-risk item with revenue whose growth is above the growth threshold,
\* next to a high-scaling item with revenue, with the sliders moved.
C15_Witness ==
    /\ pc = "rendered"
    /\ growth_thresh # DefaultGrowthThresh
    /\ kpi.rev_at_risk > 0
    /\ kpi.high_scaling_rev > 0
    /\ \E n \in 1..Len(kpi.sku_merged) :
           /\ kpi.sku_merged[n].item_id \in Ids(kpi.risky)
           /\ growth_gt(kpi.sku_merged[n].growth_pct, growth_thresh)

====
